---- MODULE Spec2Model ----
(***************************************************************************)
(* Offline bundle pipeline of opencode-offline:                            *)
(*   script/download-offline-deps.ts   (acquisition of the dependency root)*)
(*   script/package-offline-bundle.ts  (bundle assembly and archival)      *)
(*   packages/opencode/src/offline/index.ts (offline path resolver)        *)
(*   packages/opencode/src/session/request-capture.ts                      *)
(*                                                                         *)
(* The file system below dist/ is one function from paths (tuples of path  *)
(* segments) to entries.  Each entry records its kind, the process run that*)
(* created it, its executable bit and, for the JSON files, its text as an  *)
(* ordered list of <<key path, value>> members.  The two scripts are       *)
(* separate processes; one process runs at a time.  Network answers,       *)
(* archive contents and subprocess exit codes are inputs drawn with \E.    *)
(* File-system calls fail only for the reason the state gives (ENOENT);    *)
(* disk-full and permission errors are outside the model.                  *)
(***************************************************************************)
EXTENDS Integers, Sequences, FiniteSets, TLC

VARIABLES
    fs,          \* path -> entry, everything below dist/
    run,         \* number of processes started so far
    acqPc,       \* position of the acquisition process
    acqExit,     \* its exit code (-1: none yet)
    acqRun,      \* run number of the current / last acquisition process
    acqDone,     \* stages the current / last acquisition run completed, in order
    fresh,       \* what this acquisition run would have built from an empty disk
    release,     \* the answer of the release lookup, until the download starts
    asset,       \* index of the selected asset in release.assets (0: none)
    picked,      \* tag and selected asset name of the stage in progress
    versions,    \* values returned by the finished download stages
    pkgPc,       \* position of the packaging process
    pkgExit,     \* its exit code (-1: none yet)
    pkgRun,      \* run number of the current / last packaging process
    pkgDone,     \* stages the current / last packaging run completed, in order
    buildDir,    \* the directory buildOpencode returned
    env,         \* BUNDLE_VERSION and BUNDLE_COMMIT_SHA as createBundle read them
    requests,    \* request-capture: the Map from session id to captured request
    got,         \* request-capture: the session and result of the last get
    log          \* request-capture: the capture and clear calls made so far

acqVars == <<acqPc, acqExit, acqRun, acqDone, fresh, release, asset, picked, versions>>
pkgVars == <<pkgPc, pkgExit, pkgRun, pkgDone, buildDir, env>>
capVars == <<requests, got, log>>
pipelineVars == <<fs, run, acqVars, pkgVars>>
vars == <<pipelineVars, capVars>>

---------------------------------------------------------------------------
(* Bounds *)
MaxRuns == 3
MaxAssets == 2
MaxCalls == 3

---------------------------------------------------------------------------
(* Program constants *)
DEPS_DIR == <<"dist", "offline-deps">>
BUNDLE_DIR == <<"dist", "opencode-offline-linux-x64">>
TARBALL_NAME == "opencode-offline-linux-x64.tar.gz"
RIPGREP_VERSION == "14.1.1"
RipgrepArchive == "ripgrep-14.1.1-x86_64-unknown-linux-musl.tar.gz"
RustAnalyzerAsset == "rust-analyzer-x86_64-unknown-linux-gnu.gz"

---------------------------------------------------------------------------
(* Paths and the file system *)

\* path.join on already split segments
Join(p, q) == p \o q

IsPrefix(p, q) == Len(p) <= Len(q) /\ SubSeq(q, 1, Len(p)) = p

Under(p, q) == IsPrefix(p, q) /\ p # q

Prefixes(p) == { SubSeq(p, 1, n) : n \in 1..Len(p) }

EmptyFs == [q \in {} |-> 0]

Entry(kind, r, data) == [kind |-> kind, run |-> r, exec |-> FALSE, data |-> data]

Exists(f, p) == p \in DOMAIN f

\* fs.mkdir(p, { recursive: true }): missing ancestors are created, existing
\* directories are left as they are
MkdirP(f, p, r) ==
    [q \in DOMAIN f \cup Prefixes(p) |->
        IF q \in DOMAIN f THEN f[q] ELSE Entry("dir", r, <<>>)]

\* Bun.write(p, data): creates or truncates the file; an existing file keeps
\* its mode
WriteFile(f, p, r, data) ==
    [q \in DOMAIN f \cup {p} |->
        IF q # p THEN f[q]
        ELSE [kind |-> "file", run |-> r,
              exec |-> IF p \in DOMAIN f THEN f[p].exec ELSE FALSE,
              data |-> data]]

\* mutant of Unlink: the file is left where it is
UnlinkSkipped(f, p) == [q \in DOMAIN f |-> f[q]]

\* fs.unlink(p)
Unlink(f, p) == [q \in DOMAIN f \ {p} |-> f[q]]

\* fs.rm(p, { recursive: true, force: true })
RmRf(f, p) == [q \in {x \in DOMAIN f : ~IsPrefix(p, x)} |-> f[q]]

\* fs.rename(from, to) of a tree, to not existing
Rename(f, from, to) ==
    LET moved == {q \in DOMAIN f : IsPrefix(from, q)}
        Dest(q) == Join(to, SubSeq(q, Len(from) + 1, Len(q)))
        Src(d) == Join(from, SubSeq(d, Len(to) + 1, Len(d)))
    IN  [q \in (DOMAIN f \ moved) \cup {Dest(x) : x \in moved} |->
            IF q \in DOMAIN f \ moved THEN f[q] ELSE f[Src(q)]]

\* mutant of Chmod: the mode is left as it is
ChmodSkipped(f, p) == [f EXCEPT ![p].exec = f[p].exec]

\* fs.chmod(p, 0o755)
Chmod(f, p) == [f EXCEPT ![p].exec = TRUE]

\* an archive tool writing the tree (a set of <<relative path, kind>>) below dest
Extract(f, dest, tree, r) ==
    LET new == {Join(dest, t[1]) : t \in tree}
        KindOf(q) == (CHOOSE t \in tree : Join(dest, t[1]) = q)[2]
    IN  [q \in DOMAIN f \cup new |->
            IF q \notin new THEN f[q]
            ELSE IF q \in DOMAIN f /\ f[q].kind = "dir" /\ KindOf(q) = "dir" THEN f[q]
            ELSE Entry(KindOf(q), r, <<>>)]

\* the entries below p, p itself included
Tree(f, p) == [q \in {x \in DOMAIN f : IsPrefix(p, x)} |-> f[q]]

---------------------------------------------------------------------------
(* Strings.  A string the code searches in is spelled out character by     *)
(* character so that includes() and endsWith() are computed, not assumed.  *)

Chars(s) ==
    CASE s = "clangd-linux-18.1.3.zip" ->
           <<"c","l","a","n","g","d","-","l","i","n","u","x","-","1","8",".","1",".","3",".","z","i","p">>
      [] s = "clangd_indexing_tools-linux-18.1.3.zip" ->
           <<"c","l","a","n","g","d","_","i","n","d","e","x","i","n","g","_","t","o","o","l","s","-","l","i","n","u","x","-","1","8",".","1",".","3",".","z","i","p">>
      [] s = "clangd-mac-18.1.3.zip" ->
           <<"c","l","a","n","g","d","-","m","a","c","-","1","8",".","1",".","3",".","z","i","p">>
      [] s = "clangd-linux-19.1.0.zip" ->
           <<"c","l","a","n","g","d","-","l","i","n","u","x","-","1","9",".","1",".","0",".","z","i","p">>
      [] s = "clangd-linux-18.1.3.zip.sig" ->
           <<"c","l","a","n","g","d","-","l","i","n","u","x","-","1","8",".","1",".","3",".","z","i","p",".","s","i","g">>
      [] s = "rust-analyzer-x86_64-unknown-linux-gnu.gz" ->
           <<"r","u","s","t","-","a","n","a","l","y","z","e","r","-","x","8","6","_","6","4","-","u","n","k","n","o","w","n","-","l","i","n","u","x","-","g","n","u",".","g","z">>
      [] s = "rust-analyzer-aarch64-unknown-linux-gnu.gz" ->
           <<"r","u","s","t","-","a","n","a","l","y","z","e","r","-","a","a","r","c","h","6","4","-","u","n","k","n","o","w","n","-","l","i","n","u","x","-","g","n","u",".","g","z">>
      [] s = "linux" -> <<"l","i","n","u","x">>
      [] s = ".zip" -> <<".","z","i","p">>
      [] s = "18.1.3" -> <<"1","8",".","1",".","3">>
      [] s = "19.1.0" -> <<"1","9",".","1",".","0">>
      [] s = "opencode-linux-x64" ->
           <<"o","p","e","n","c","o","d","e","-","l","i","n","u","x","-","x","6","4">>
      [] s = "opencode-linux-x64-baseline" ->
           <<"o","p","e","n","c","o","d","e","-","l","i","n","u","x","-","x","6","4","-","b","a","s","e","l","i","n","e">>
      [] s = "opencode-linux-x64-musl" ->
           <<"o","p","e","n","c","o","d","e","-","l","i","n","u","x","-","x","6","4","-","m","u","s","l">>
      [] s = "opencode-linux-arm64" ->
           <<"o","p","e","n","c","o","d","e","-","l","i","n","u","x","-","a","r","m","6","4">>
      [] s = "opencode-darwin-x64" ->
           <<"o","p","e","n","c","o","d","e","-","d","a","r","w","i","n","-","x","6","4">>
      [] s = "ripgrep" ->
           <<"r","i","p","g","r","e","p">>
      [] s = "lsp" ->
           <<"l","s","p">>
      [] s = "node_modules" ->
           <<"n","o","d","e","_","m","o","d","u","l","e","s">>
      [] s = "package.json" ->
           <<"p","a","c","k","a","g","e",".","j","s","o","n">>
      [] s = "bun.lock" ->
           <<"b","u","n",".","l","o","c","k">>
      [] s = "manifest.json" ->
           <<"m","a","n","i","f","e","s","t",".","j","s","o","n">>
      [] s = "rust-analyzer.gz" ->
           <<"r","u","s","t","-","a","n","a","l","y","z","e","r",".","g","z">>
      [] s = "ripgrep-14.1.1-x86_64-unknown-linux-musl.tar.gz" ->
           <<"r","i","p","g","r","e","p","-","1","4",".","1",".","1","-","x","8","6","_","6","4","-","u","n","k","n","o","w","n","-","l","i","n","u","x","-","m","u","s","l",".","t","a","r",".","g","z">>
      [] s = "x64" -> <<"x","6","4">>
      [] s = "baseline" -> <<"b","a","s","e","l","i","n","e">>
      [] s = "musl" -> <<"m","u","s","l">>

\* String.prototype.includes
Includes(s, needle) ==
    LET a == Chars(s)
        b == Chars(needle)
    IN  \E i \in 0..(Len(a) - Len(b)) : SubSeq(a, i + 1, i + Len(b)) = b

\* String.prototype.endsWith
EndsWith(s, suffix) ==
    LET a == Chars(s)
        b == Chars(suffix)
    IN  Len(b) <= Len(a) /\ SubSeq(a, Len(a) - Len(b) + 1, Len(a)) = b

\* `clangd_${tag}`
ClangdExtractedName(tag) ==
    CASE tag = "18.1.3" -> "clangd_18.1.3"
      [] tag = "19.1.0" -> "clangd_19.1.0"

---------------------------------------------------------------------------
(* Inputs of the acquisition run *)

\* names a release may list; the names of one release differ from each other
ClangdAssetNames ==
    { "clangd-linux-18.1.3.zip", "clangd_indexing_tools-linux-18.1.3.zip",
      "clangd-mac-18.1.3.zip", "clangd-linux-19.1.0.zip",
      "clangd-linux-18.1.3.zip.sig" }

RustAnalyzerAssetNames ==
    { "rust-analyzer-x86_64-unknown-linux-gnu.gz",
      "rust-analyzer-aarch64-unknown-linux-gnu.gz" }

ClangdTags == {"18.1.3", "19.1.0"}
RustAnalyzerTags == {"2024-01-01", "nightly"}

\* the lists of at most MaxAssets different names
AssetLists(names) ==
    { l \in UNION { [1..n -> names] : n \in 0..MaxAssets } :
        \A i, j \in 1..Len(l) : l[i] = l[j] => i = j }

NoRelease == [tag |-> "", assets |-> <<>>]

NoPick == [tag |-> "", name |-> ""]

\* what the ripgrep archive may hold: one top-level directory wrapping the files
RipgrepTrees ==
    { { <<<<"ripgrep-14.1.1">>, "dir">>, <<<<"ripgrep-14.1.1", "rg">>, "file">> },
      { <<<<"ripgrep-14.1.1">>, "dir">>, <<<<"ripgrep-14.1.1", "doc">>, "dir">>,
        <<<<"ripgrep-14.1.1", "doc", "rg.1">>, "file">> } }

\* tar --strip-components=n: the first n segments of every member name are
\* dropped, and so are the members that have no more than n segments
StripComponents(tree, n) ==
    { <<SubSeq(t[1], n + 1, Len(t[1])), t[2]>> : t \in {x \in tree : Len(x[1]) > n} }

\* what unzip may leave in lsp/
ClangdTrees ==
    { { <<<<"clangd_18.1.3">>, "dir">>, <<<<"clangd_18.1.3", "bin">>, "dir">>,
        <<<<"clangd_18.1.3", "bin", "clangd">>, "file">> },
      { <<<<"clangd_18.1.3">>, "dir">>, <<<<"clangd_18.1.3", "bin">>, "dir">>,
        <<<<"clangd_18.1.3", "bin", "clangd-indexer">>, "file">> },
      { <<<<"clangd_19.1.0">>, "dir">>, <<<<"clangd_19.1.0", "bin">>, "dir">>,
        <<<<"clangd_19.1.0", "bin", "clangd">>, "file">> } }

ExitCodes == {0, 1}

---------------------------------------------------------------------------
(* release.assets.find(predicate) *)

RECURSIVE FindFrom(_, _)
\* the first index >= i whose flag is set, 0 when there is none
FindFrom(flags, i) ==
    IF i > Len(flags) THEN 0
    ELSE IF flags[i] THEN i
    ELSE FindFrom(flags, i + 1)

\* mutant of Find: the last index whose flag is set
FindLast(flags) ==
    IF \E i \in 1..Len(flags) : flags[i]
    THEN CHOOSE i \in 1..Len(flags) : flags[i] /\ \A j \in (i + 1)..Len(flags) : ~flags[j]
    ELSE 0

Find(flags) == FindFrom(flags, 1)

\* a.name.includes("linux") && a.name.includes(tag) && a.name.endsWith(".zip")
ClangdPredicate(name, tag) ==
    Includes(name, "linux") /\ Includes(name, tag) /\ EndsWith(name, ".zip")

\* a.name === "rust-analyzer-x86_64-unknown-linux-gnu.gz"
RustAnalyzerPredicate(name) == name = RustAnalyzerAsset

SelectClangdAsset(rel) ==
    Find([i \in 1..Len(rel.assets) |-> ClangdPredicate(rel.assets[i], rel.tag)])

SelectRustAnalyzerAsset(rel) ==
    Find([i \in 1..Len(rel.assets) |-> RustAnalyzerPredicate(rel.assets[i])])

---------------------------------------------------------------------------
(* JSON.  An object is its own property keys in insertion order and their   *)
(* values; nested objects are flattened to key paths.  A JSON text is the   *)
(* ordered list of its <<key path, value>> members.                         *)

EmptyObject == [keys |-> <<>>, val |-> <<>>]

\* obj[key] = value
SetProperty(obj, key, value) ==
    [keys |-> IF key \in DOMAIN obj.val THEN obj.keys ELSE Append(obj.keys, key),
     val  |-> [k \in DOMAIN obj.val \cup {key} |->
                  IF k = key THEN value ELSE obj.val[k]]]

\* JSON.stringify(obj, null, 2)
Stringify(obj) == [i \in 1..Len(obj.keys) |-> <<obj.keys[i], obj.val[obj.keys[i]]>>]

RECURSIVE ParseFrom(_, _, _)
ParseFrom(text, i, obj) ==
    IF i > Len(text) THEN obj
    ELSE ParseFrom(text, i + 1, SetProperty(obj, text[i][1], text[i][2]))

\* JSON.parse(text)
Parse(text) == ParseFrom(text, 1, EmptyObject)

\* { key: value, ... }
ObjectLiteral(members) == ParseFrom(members, 1, EmptyObject)

HasKey(text, key) == \E i \in 1..Len(text) : text[i][1] = key

ValueOf(text, key) == text[CHOOSE i \in 1..Len(text) : text[i][1] = key][2]

---------------------------------------------------------------------------
(* Paths of the dependency root *)

RipgrepDir == Join(DEPS_DIR, <<"ripgrep">>)
RipgrepArchivePath == Join(DEPS_DIR, <<RipgrepArchive>>)
RipgrepBinary == Join(RipgrepDir, <<"rg">>)
LspDir == Join(DEPS_DIR, <<"lsp">>)
ClangdFinalDir == Join(DEPS_DIR, <<"lsp", "clangd">>)
ClangdBinary == Join(ClangdFinalDir, <<"bin", "clangd">>)
RustAnalyzerDir == Join(DEPS_DIR, <<"lsp", "rust-analyzer", "bin">>)
RustAnalyzerArchivePath == Join(DEPS_DIR, <<"rust-analyzer.gz">>)
RustAnalyzerBinary == Join(RustAnalyzerDir, <<"rust-analyzer">>)
NodeModulesDir == Join(DEPS_DIR, <<"node_modules">>)
PkgJsonPath == Join(DEPS_DIR, <<"package.json">>)
ManifestPath == Join(DEPS_DIR, <<"manifest.json">>)

---------------------------------------------------------------------------
(* The steps of the acquisition script.  Each step is a function of the    *)
(* file system and the step's inputs and yields the file system it leaves  *)
(* and whether it returned (ok) or threw.                                   *)

\* downloadFile(url, dest): the body is written only when response.ok
DownloadFile(f, dest, responseOk, r) ==
    IF responseOk THEN WriteFile(f, dest, r, <<>>) ELSE f

\* mutant of CleanDepsDir: the directory is created but not removed first
CleanDepsDirNoRm(f, r) == MkdirP(f, DEPS_DIR, r)

\* main: fs.rm(DEPS_DIR, recursive, force); fs.mkdir(DEPS_DIR, recursive)
CleanDepsDir(f, r) == MkdirP(RmRf(f, DEPS_DIR), DEPS_DIR, r)

\* downloadRipgrep, up to and including downloadFile
RipgrepFetchStep(f, responseOk, r) ==
    [fs |-> DownloadFile(MkdirP(f, RipgrepDir, r), RipgrepArchivePath, responseOk, r),
     ok |-> responseOk]

\* mutant of RipgrepExtractStep: rg is not chmod-ed, so its absence goes unnoticed
RipgrepExtractNoChmod(f, exitCode, tree, r) ==
    LET f1 == Extract(f, RipgrepDir, StripComponents(tree, 1), r)
        f2 == Unlink(f1, RipgrepArchivePath)
    IN  IF exitCode # 0 THEN [fs |-> f1, ok |-> FALSE]
        ELSE [fs |-> f2, ok |-> TRUE]

\* downloadRipgrep from extractTarGz on: tar, unlink of the archive, chmod of rg
RipgrepExtractStep(f, exitCode, tree, r) ==
    LET f1 == Extract(f, RipgrepDir, StripComponents(tree, 1), r)
        f2 == Unlink(f1, RipgrepArchivePath)
    IN  IF exitCode # 0 THEN [fs |-> f1, ok |-> FALSE]
        ELSE IF ~Exists(f2, RipgrepBinary) THEN [fs |-> f2, ok |-> FALSE]
        ELSE [fs |-> Chmod(f2, RipgrepBinary), ok |-> TRUE]

\* downloadClangd: mkdir of lsp/clangd and downloadFile of the selected asset
ClangdFetchStep(f, name, responseOk, r) ==
    [fs |-> DownloadFile(MkdirP(f, ClangdFinalDir, r), Join(DEPS_DIR, <<name>>),
                         responseOk, r),
     ok |-> responseOk]

\* mutant of ClangdExtractStep: the extracted directory is copied to lsp/clangd
\* and stays where unzip put it
ClangdExtractCopies(f, name, tag, exitCode, tree, r) ==
    LET extractedDir == Join(LspDir, <<ClangdExtractedName(tag)>>)
        f1 == Extract(f, LspDir, tree, r)
        f2 == Unlink(f1, Join(DEPS_DIR, <<name>>))
        f3 == RmRf(f2, ClangdFinalDir)
        f4 == Rename(f3, extractedDir, ClangdFinalDir)
        f5 == [q \in DOMAIN f3 \cup DOMAIN f4 |-> IF q \in DOMAIN f4 THEN f4[q] ELSE f3[q]]
    IN  IF exitCode # 0 THEN [fs |-> f1, ok |-> FALSE]
        ELSE IF ~Exists(f3, extractedDir) THEN [fs |-> f3, ok |-> FALSE]
        ELSE IF ~Exists(f5, ClangdBinary) THEN [fs |-> f5, ok |-> FALSE]
        ELSE [fs |-> Chmod(f5, ClangdBinary), ok |-> TRUE]

\* downloadClangd from extractZip on: unzip into lsp/, unlink of the archive,
\* rm of lsp/clangd, rename of lsp/clangd_<tag>, chmod of bin/clangd
ClangdExtractStep(f, name, tag, exitCode, tree, r) ==
    LET extractedDir == Join(LspDir, <<ClangdExtractedName(tag)>>)
        f1 == Extract(f, LspDir, tree, r)
        f2 == Unlink(f1, Join(DEPS_DIR, <<name>>))
        f3 == RmRf(f2, ClangdFinalDir)
        f4 == Rename(f3, extractedDir, ClangdFinalDir)
    IN  IF exitCode # 0 THEN [fs |-> f1, ok |-> FALSE]
        ELSE IF ~Exists(f3, extractedDir) THEN [fs |-> f3, ok |-> FALSE]
        ELSE IF ~Exists(f4, ClangdBinary) THEN [fs |-> f4, ok |-> FALSE]
        ELSE [fs |-> Chmod(f4, ClangdBinary), ok |-> TRUE]

\* downloadRustAnalyzer: mkdir of lsp/rust-analyzer/bin and downloadFile
RustAnalyzerFetchStep(f, responseOk, r) ==
    [fs |-> DownloadFile(MkdirP(f, RustAnalyzerDir, r), RustAnalyzerArchivePath,
                         responseOk, r),
     ok |-> responseOk]

\* mutant of RustAnalyzerExtractStep: the output of gunzip is written before
\* the exit code is looked at
RustAnalyzerExtractWriteFirst(f, exitCode, r) ==
    LET f1 == WriteFile(f, RustAnalyzerBinary, r, <<>>)
    IN  IF exitCode # 0 THEN [fs |-> f1, ok |-> FALSE]
        ELSE [fs |-> Unlink(Chmod(f1, RustAnalyzerBinary), RustAnalyzerArchivePath),
              ok |-> TRUE]

\* downloadRustAnalyzer from gunzip on: the binary is written after the exit
\* code was checked, then chmod, then unlink of the archive
RustAnalyzerExtractStep(f, exitCode, r) ==
    IF exitCode # 0 THEN [fs |-> f, ok |-> FALSE]
    ELSE [fs |-> Unlink(Chmod(WriteFile(f, RustAnalyzerBinary, r, <<>>),
                              RustAnalyzerBinary),
                        RustAnalyzerArchivePath),
          ok |-> TRUE]

---------------------------------------------------------------------------
(* installNpmPackages *)

Packages ==
    << "pyright", "typescript", "typescript-language-server",
       "opencode-anthropic-auth@0.0.9", "@gitlab/opencode-gitlab-auth@1.3.0",
       "@aws-sdk/credential-providers", "@opencode-ai/plugin" >>

\* the package a specifier names, as the package manager reads it
SpecifierName(spec) ==
    CASE spec = "opencode-anthropic-auth@0.0.9" -> "opencode-anthropic-auth"
      [] spec = "@gitlab/opencode-gitlab-auth@1.3.0" -> "@gitlab/opencode-gitlab-auth"
      [] OTHER -> spec

\* the version a specifier pins, "" when it pins none
SpecifierVersion(spec) ==
    CASE spec = "opencode-anthropic-auth@0.0.9" -> "0.0.9"
      [] spec = "@gitlab/opencode-gitlab-auth@1.3.0" -> "1.3.0"
      [] OTHER -> ""

\* a package name split at its "/" into path segments
PackagePath(name) ==
    CASE name = "@gitlab/opencode-gitlab-auth" -> <<"@gitlab", "opencode-gitlab-auth">>
      [] name = "@aws-sdk/credential-providers" -> <<"@aws-sdk", "credential-providers">>
      [] name = "@opencode-ai/plugin" -> <<"@opencode-ai", "plugin">>
      [] OTHER -> <<name>>

\* versions the registry may resolve an unpinned specifier to
Resolutions == {"^1.2.3"}

RECURSIVE InstallFrom(_, _, _)
InstallFrom(f, i, r) ==
    IF i > Len(Packages) THEN f
    ELSE InstallFrom(
            MkdirP(f, Join(NodeModulesDir, PackagePath(SpecifierName(Packages[i]))), r),
            i + 1, r)

\* `bun add --cwd DEPS_DIR ...packages` exiting 0: every package is placed in
\* node_modules and recorded, with the version it resolved to, in package.json
BunAdd(f, resolved, r) ==
    LET deps == [i \in 1..Len(Packages) |->
                    << <<"dependencies", SpecifierName(Packages[i])>>,
                       IF SpecifierVersion(Packages[i]) # ""
                       THEN SpecifierVersion(Packages[i]) ELSE resolved >>]
        f1 == InstallFrom(f, 1, r)
        f2 == WriteFile(f1, PkgJsonPath, r, deps)
    IN  WriteFile(f2, Join(DEPS_DIR, <<"bun.lock">>), r, <<>>)

\* for (const [pkg, version] of Object.entries(pkgJson.dependencies || {}))
ReadDependencies(text) ==
    LET obj == Parse(text)
        IsDep(k) == Len(k) = 2 /\ k[1] = "dependencies"
        deps == SelectSeq(obj.keys, IsDep)
    IN  [i \in 1..Len(deps) |-> <<deps[i][2], obj.val[deps[i]]>>]

\* mutant of InstallNpmStep: the requested specifiers are returned
InstallNpmReturnsRequested(f, exitCode, resolved, r) ==
    LET f1 == MkdirP(f, NodeModulesDir, r)
        f2 == WriteFile(f1, PkgJsonPath, r, <<>>)
        f3 == BunAdd(f2, resolved, r)
    IN  IF exitCode # 0 THEN [fs |-> f2, ok |-> FALSE, versions |-> <<>>]
        ELSE [fs |-> f3, ok |-> TRUE,
              versions |-> [i \in 1..Len(Packages) |->
                              <<SpecifierName(Packages[i]), Packages[i]>>]]

\* installNpmPackages: mkdir node_modules, an empty package.json, bun add, and
\* the versions read back from package.json
InstallNpmStep(f, exitCode, resolved, r) ==
    LET f1 == MkdirP(f, NodeModulesDir, r)
        f2 == WriteFile(f1, PkgJsonPath, r, <<>>)
        f3 == BunAdd(f2, resolved, r)
    IN  IF exitCode # 0 THEN [fs |-> f2, ok |-> FALSE, versions |-> <<>>]
        ELSE [fs |-> f3, ok |-> TRUE,
              versions |-> ReadDependencies(f3[PkgJsonPath].data)]

---------------------------------------------------------------------------
(* createManifest *)

\* new Date().toISOString() of a process started as run r
Now(r) == ToString(r)

NoVersions == [ripgrep |-> "", clangd |-> "", rustAnalyzer |-> "", npm |-> <<>>]

\* mutant of ManifestObject: the ripgrep entry is taken from the clangd release
ManifestObjectUnpinned(v, created) ==
    ObjectLiteral(
          << << <<"version">>, "1.0.0" >>,
             << <<"created">>, created >>,
             << <<"platform">>, "linux" >>,
             << <<"arch">>, "x64" >>,
             << <<"components", "ripgrep">>, v.clangd >>,
             << <<"components", "clangd">>, v.clangd >>,
             << <<"components", "rustAnalyzer">>, v.rustAnalyzer >> >>
          \o [i \in 1..Len(v.npm) |->
                << <<"components", "npmPackages", v.npm[i][1]>>, v.npm[i][2] >>])

\* the manifest object literal
ManifestObject(v, created) ==
    ObjectLiteral(
          << << <<"version">>, "1.0.0" >>,
             << <<"created">>, created >>,
             << <<"platform">>, "linux" >>,
             << <<"arch">>, "x64" >>,
             << <<"components", "ripgrep">>, v.ripgrep >>,
             << <<"components", "clangd">>, v.clangd >>,
             << <<"components", "rustAnalyzer">>, v.rustAnalyzer >> >>
          \o [i \in 1..Len(v.npm) |->
                << <<"components", "npmPackages", v.npm[i][1]>>, v.npm[i][2] >>])

\* Bun.write(DEPS_DIR/manifest.json, JSON.stringify(manifest, null, 2))
CreateManifestStep(f, v, r) ==
    [fs |-> WriteFile(f, ManifestPath, r, Stringify(ManifestObject(v, Now(r)))),
     ok |-> TRUE]

---------------------------------------------------------------------------
(* The acquisition process: main() of download-offline-deps.ts.  release,  *)
(* asset and picked are locals of the download function in progress: they  *)
(* are gone when it returns or throws.                                      *)

NoProcessRunning == acqPc \in {"idle", "exit"} /\ pkgPc \in {"idle", "exit"}

NoLocals == release' = NoRelease /\ asset' = 0 /\ picked' = NoPick

\* mutant of AcqThrow: the error is logged and main goes on to the manifest
AcqThrowSkipped ==
    acqPc' = "manifest" /\ acqExit' = acqExit /\ NoLocals /\ UNCHANGED <<acqDone, versions>>

\* main().catch: console.error, process.exit(1)
AcqThrow == acqPc' = "exit" /\ acqExit' = 1 /\ NoLocals /\ UNCHANGED <<acqDone, versions>>

\* mutant of AcqGoto: downloadClangd is not awaited, rust-analyzer starts at once
AcqGotoUnawaited(pc) ==
    acqPc' = (IF pc = "clangd" THEN "rustAnalyzer" ELSE pc) /\ acqExit' = acqExit

AcqGoto(pc) == acqPc' = pc /\ acqExit' = acqExit

\* a download function returns: the stage is complete and main calls the next
AcqReturn(stage, next, v) ==
    /\ AcqGoto(next)
    /\ acqDone' = Append(acqDone, stage)
    /\ versions' = v
    /\ NoLocals

\* main: the script starts and cleans the dependency root
AcqMain ==
    /\ NoProcessRunning
    /\ run < MaxRuns
    /\ run' = run + 1
    /\ acqRun' = run + 1
    /\ fs' = CleanDepsDir(fs, run + 1)
    /\ fresh' = CleanDepsDir(EmptyFs, run + 1)
    /\ acqPc' = "ripgrep"
    /\ acqExit' = -1
    /\ acqDone' = <<"clean">>
    /\ NoLocals
    /\ versions' = NoVersions
    /\ UNCHANGED pkgVars

RipgrepFetch ==
    /\ acqPc = "ripgrep"
    /\ \E responseOk \in BOOLEAN :
          LET s == RipgrepFetchStep(fs, responseOk, acqRun)
          IN  /\ fs' = s.fs
              /\ fresh' = RipgrepFetchStep(fresh, responseOk, acqRun).fs
              /\ IF s.ok
                 THEN /\ AcqGoto("ripgrep_extract")
                      /\ UNCHANGED <<acqDone, versions, release, asset, picked>>
                 ELSE AcqThrow
    /\ UNCHANGED <<run, acqRun, pkgVars>>

RipgrepExtract ==
    /\ acqPc = "ripgrep_extract"
    /\ \E exitCode \in ExitCodes, tree \in RipgrepTrees :
          LET s == RipgrepExtractStep(fs, exitCode, tree, acqRun)
          IN  /\ fs' = s.fs
              /\ fresh' = RipgrepExtractStep(fresh, exitCode, tree, acqRun).fs
              /\ IF s.ok
                 THEN AcqReturn("ripgrep", "clangd",
                                [versions EXCEPT !.ripgrep = RIPGREP_VERSION])
                 ELSE AcqThrow
    /\ UNCHANGED <<run, acqRun, pkgVars>>

\* downloadClangd: fetch of releases/latest and release = await response.json()
ClangdLookup ==
    /\ acqPc = "clangd"
    /\ \/ AcqThrow
       \/ \E tag \in ClangdTags, assets \in AssetLists(ClangdAssetNames) :
             /\ release' = [tag |-> tag, assets |-> assets]
             /\ AcqGoto("clangd_select")
             /\ UNCHANGED <<asset, picked, acqDone, versions>>
    /\ UNCHANGED <<fs, fresh, run, acqRun, pkgVars>>

\* downloadClangd: release.assets.find(...) and the throw when it found none
ClangdSelect ==
    /\ acqPc = "clangd_select"
    /\ LET found == SelectClangdAsset(release)
       IN  IF found = 0
           THEN AcqThrow
           ELSE /\ AcqGoto("clangd_fetch")
                /\ asset' = found
                /\ picked' = [tag |-> release.tag, name |-> release.assets[found]]
                /\ UNCHANGED <<release, acqDone, versions>>
    /\ UNCHANGED <<fs, fresh, run, acqRun, pkgVars>>

ClangdFetch ==
    /\ acqPc = "clangd_fetch"
    /\ \E responseOk \in BOOLEAN :
          LET s == ClangdFetchStep(fs, picked.name, responseOk, acqRun)
          IN  /\ fs' = s.fs
              /\ fresh' = ClangdFetchStep(fresh, picked.name, responseOk, acqRun).fs
              /\ IF s.ok
                 THEN /\ AcqGoto("clangd_extract")
                      /\ release' = NoRelease
                      /\ asset' = 0
                      /\ UNCHANGED <<picked, acqDone, versions>>
                 ELSE AcqThrow
    /\ UNCHANGED <<run, acqRun, pkgVars>>

ClangdExtract ==
    /\ acqPc = "clangd_extract"
    /\ \E exitCode \in ExitCodes, tree \in ClangdTrees :
          LET s == ClangdExtractStep(fs, picked.name, picked.tag, exitCode, tree, acqRun)
          IN  /\ fs' = s.fs
              /\ fresh' = ClangdExtractStep(fresh, picked.name, picked.tag, exitCode,
                                            tree, acqRun).fs
              /\ IF s.ok
                 THEN AcqReturn("clangd", "rustAnalyzer",
                                [versions EXCEPT !.clangd = picked.tag])
                 ELSE AcqThrow
    /\ UNCHANGED <<run, acqRun, pkgVars>>

\* downloadRustAnalyzer: fetch of releases/latest and release = await response.json()
RustAnalyzerLookup ==
    /\ acqPc = "rustAnalyzer"
    /\ \/ AcqThrow
       \/ \E tag \in RustAnalyzerTags, assets \in AssetLists(RustAnalyzerAssetNames) :
             /\ release' = [tag |-> tag, assets |-> assets]
             /\ AcqGoto("rustAnalyzer_select")
             /\ UNCHANGED <<asset, picked, acqDone, versions>>
    /\ UNCHANGED <<fs, fresh, run, acqRun, pkgVars>>

\* downloadRustAnalyzer: release.assets.find(...) and the throw when it found none
RustAnalyzerSelect ==
    /\ acqPc = "rustAnalyzer_select"
    /\ LET found == SelectRustAnalyzerAsset(release)
       IN  IF found = 0
           THEN AcqThrow
           ELSE /\ AcqGoto("rustAnalyzer_fetch")
                /\ asset' = found
                /\ picked' = [tag |-> release.tag, name |-> release.assets[found]]
                /\ UNCHANGED <<release, acqDone, versions>>
    /\ UNCHANGED <<fs, fresh, run, acqRun, pkgVars>>

RustAnalyzerFetch ==
    /\ acqPc = "rustAnalyzer_fetch"
    /\ \E responseOk \in BOOLEAN :
          LET s == RustAnalyzerFetchStep(fs, responseOk, acqRun)
          IN  /\ fs' = s.fs
              /\ fresh' = RustAnalyzerFetchStep(fresh, responseOk, acqRun).fs
              /\ IF s.ok
                 THEN /\ AcqGoto("rustAnalyzer_extract")
                      /\ release' = NoRelease
                      /\ asset' = 0
                      /\ UNCHANGED <<picked, acqDone, versions>>
                 ELSE AcqThrow
    /\ UNCHANGED <<run, acqRun, pkgVars>>

RustAnalyzerExtract ==
    /\ acqPc = "rustAnalyzer_extract"
    /\ \E exitCode \in ExitCodes :
          LET s == RustAnalyzerExtractStep(fs, exitCode, acqRun)
          IN  /\ fs' = s.fs
              /\ fresh' = RustAnalyzerExtractStep(fresh, exitCode, acqRun).fs
              /\ IF s.ok
                 THEN AcqReturn("rustAnalyzer", "npm",
                                [versions EXCEPT !.rustAnalyzer = picked.tag])
                 ELSE AcqThrow
    /\ UNCHANGED <<run, acqRun, pkgVars>>

InstallNpmPackages ==
    /\ acqPc = "npm"
    /\ \E exitCode \in ExitCodes, resolved \in Resolutions :
          LET s == InstallNpmStep(fs, exitCode, resolved, acqRun)
          IN  /\ fs' = s.fs
              /\ fresh' = InstallNpmStep(fresh, exitCode, resolved, acqRun).fs
              /\ IF s.ok
                 THEN AcqReturn("npm", "manifest", [versions EXCEPT !.npm = s.versions])
                 ELSE AcqThrow
    /\ UNCHANGED <<run, acqRun, pkgVars>>

\* createManifest, then main returns and the process exits with code 0
CreateManifest ==
    /\ acqPc = "manifest"
    /\ LET s == CreateManifestStep(fs, versions, acqRun)
       IN  /\ fs' = s.fs
           /\ fresh' = CreateManifestStep(fresh, versions, acqRun).fs
           /\ IF s.ok
              THEN /\ acqPc' = "exit"
                   /\ acqExit' = 0
                   /\ acqDone' = Append(acqDone, "manifest")
                   /\ NoLocals
                   /\ UNCHANGED versions
              ELSE AcqThrow
    /\ UNCHANGED <<run, acqRun, pkgVars>>

AcqNext ==
    \/ AcqMain
    \/ RipgrepFetch
    \/ RipgrepExtract
    \/ ClangdLookup
    \/ ClangdSelect
    \/ ClangdFetch
    \/ ClangdExtract
    \/ RustAnalyzerLookup
    \/ RustAnalyzerSelect
    \/ RustAnalyzerFetch
    \/ RustAnalyzerExtract
    \/ InstallNpmPackages
    \/ CreateManifest

---------------------------------------------------------------------------
(* Paths of the bundle *)

BundleBinDir == Join(BUNDLE_DIR, <<"bin">>)
BundleBinaryPath == Join(BUNDLE_DIR, <<"bin", "opencode">>)
BundleDepsDir == Join(BUNDLE_DIR, <<"deps">>)
BundleOpentuiDir == Join(BUNDLE_DIR, <<"deps", "opentui">>)
BundleOpentuiLib == Join(BUNDLE_DIR, <<"deps", "opentui", "libopentui.so">>)
BundleManifestPath == Join(BUNDLE_DIR, <<"manifest.json">>)
WrapperPath == Join(BUNDLE_DIR, <<"opencode-offline">>)
ReadmePath == Join(BUNDLE_DIR, <<"README.md">>)
TarballPath == <<"dist", TARBALL_NAME>>

---------------------------------------------------------------------------
(* Inputs of the packaging run *)

DistEntryNames ==
    { "opencode-linux-x64", "opencode-linux-x64-baseline", "opencode-linux-x64-musl",
      "opencode-darwin-x64" }

\* what fs.readdir("packages/opencode/dist") may return after the build
DistListings == AssetLists(DistEntryNames)

\* an environment variable: <<>> when unset, <<value>> when set
EnvValues == { <<>>, <<"">>, <<"v1">> }

NoEnv == [BUNDLE_VERSION |-> <<>>, BUNDLE_COMMIT_SHA |-> <<>>]

\* a value read from process.env is truthy: it is set and is not ""
Truthy(v) == v # <<>> /\ v[1] # ""

---------------------------------------------------------------------------
(* The steps of the packaging script *)

\* buildOpencode: entries.find(e => e.includes("linux") && e.includes("x64")
\*                && !e.includes("baseline") && !e.includes("musl"))
BuildPredicate(e) ==
    /\ Includes(e, "linux")
    /\ Includes(e, "x64")
    /\ ~Includes(e, "baseline")
    /\ ~Includes(e, "musl")

SelectBuildOutput(entries) ==
    Find([i \in 1..Len(entries) |-> BuildPredicate(entries[i])])

\* mutant of BundleCleanStep: the old bundle directory is not removed
BundleCleanNoRm(f, r) ==
    [fs |-> MkdirP(MkdirP(f, BundleBinDir, r), BundleDepsDir, r), ok |-> TRUE]

\* mutant of BundleCleanStep: only bin/ is removed before the directories are made
BundleCleanBinOnly(f, r) ==
    [fs |-> MkdirP(MkdirP(RmRf(f, BundleBinDir), BundleBinDir, r), BundleDepsDir, r),
     ok |-> TRUE]

\* createBundle: rm of the bundle directory, mkdir of bin/ and deps/
BundleCleanStep(f, r) ==
    [fs |-> MkdirP(MkdirP(RmRf(f, BUNDLE_DIR), BundleBinDir, r), BundleDepsDir, r),
     ok |-> TRUE]

\* createBundle: copyFile of <buildDir>/bin/opencode and chmod
BundleBinaryStep(f, sourceExists, r) ==
    IF ~sourceExists THEN [fs |-> f, ok |-> FALSE]
    ELSE [fs |-> Chmod(WriteFile(f, BundleBinaryPath, r, <<>>), BundleBinaryPath),
          ok |-> TRUE]

\* the names DEPS_DIR/* expands to: the entries of the directory whose name
\* does not start with a dot
Glob(f, dir) ==
    { q \in DOMAIN f : /\ Len(q) = Len(dir) + 1
                       /\ IsPrefix(dir, q)
                       /\ Chars(q[Len(q)])[1] # "." }

\* cp -r of the trees at `sources` into directory `dest`
CopyInto(f, sources, dest, r) ==
    LET copied == {q \in DOMAIN f : \E s \in sources : IsPrefix(s, q)}
        Target(q) == Join(dest, SubSeq(q, Len(DEPS_DIR) + 1, Len(q)))
        Origin(t) == Join(DEPS_DIR, SubSeq(t, Len(dest) + 1, Len(t)))
        targets == {Target(q) : q \in copied}
    IN  [t \in DOMAIN f \cup targets |->
            IF t \in targets THEN [f[Origin(t)] EXCEPT !.run = r] ELSE f[t]]

\* createBundle: $`cp -r ${DEPS_DIR}/* ${BUNDLE_DIR}/deps/`
BundleDepsStep(f, exitCode, r) ==
    LET sources == Glob(f, DEPS_DIR)
    IN  IF sources = {} THEN [fs |-> f, ok |-> FALSE]
        ELSE IF exitCode # 0 THEN [fs |-> f, ok |-> FALSE]
        ELSE [fs |-> CopyInto(f, sources, BundleDepsDir, r), ok |-> TRUE]

\* createBundle: mkdir of deps/opentui and copyFile of libopentui.so
BundleOpentuiStep(f, sourceExists, r) ==
    LET f1 == MkdirP(f, BundleOpentuiDir, r)
    IN  IF ~sourceExists THEN [fs |-> f1, ok |-> FALSE]
        ELSE [fs |-> WriteFile(f1, BundleOpentuiLib, r, <<>>), ok |-> TRUE]

\* mutant of InjectVersionInfo: the release version is stored in `version`
InjectVersionOverwrites(manifest, e) ==
    LET m1 == IF Truthy(e.BUNDLE_VERSION)
              THEN SetProperty(manifest, <<"version">>, e.BUNDLE_VERSION[1])
              ELSE manifest
    IN  IF Truthy(e.BUNDLE_COMMIT_SHA)
        THEN SetProperty(m1, <<"commitSha">>, e.BUNDLE_COMMIT_SHA[1])
        ELSE m1

\* mutant of InjectVersionInfo: the commit is injected only with a version
InjectVersionNested(manifest, e) ==
    IF Truthy(e.BUNDLE_VERSION)
    THEN LET m1 == SetProperty(manifest, <<"bundleVersion">>, e.BUNDLE_VERSION[1])
         IN  IF Truthy(e.BUNDLE_COMMIT_SHA)
             THEN SetProperty(m1, <<"commitSha">>, e.BUNDLE_COMMIT_SHA[1])
             ELSE m1
    ELSE manifest

\* createBundle: the manifest is read from the dependency root, the version
\* and the commit are injected when truthy, and it is written to the bundle root
InjectVersionInfo(manifest, e) ==
    LET m1 == IF Truthy(e.BUNDLE_VERSION)
              THEN SetProperty(manifest, <<"bundleVersion">>, e.BUNDLE_VERSION[1])
              ELSE manifest
    IN  IF Truthy(e.BUNDLE_COMMIT_SHA)
        THEN SetProperty(m1, <<"commitSha">>, e.BUNDLE_COMMIT_SHA[1])
        ELSE m1

\* mutant of BundleManifestStep: a missing manifest is skipped over
BundleManifestTolerant(f, e, r) ==
    IF ~Exists(f, ManifestPath) THEN [fs |-> f, ok |-> TRUE]
    ELSE [fs |-> WriteFile(f, BundleManifestPath, r,
                    Stringify(InjectVersionInfo(Parse(f[ManifestPath].data), e))),
          ok |-> TRUE]

BundleManifestStep(f, e, r) ==
    IF ~Exists(f, ManifestPath) THEN [fs |-> f, ok |-> FALSE]
    ELSE [fs |-> WriteFile(f, BundleManifestPath, r,
                    Stringify(InjectVersionInfo(Parse(f[ManifestPath].data), e))),
          ok |-> TRUE]

\* the variables the launcher exports
WrapperScript ==
    << << <<"OPENCODE_OFFLINE_MODE">>, "true" >>,
       << <<"OPENCODE_OFFLINE_DEPS_PATH">>, "$SCRIPT_DIR/deps" >>,
       << <<"OPENCODE_DISABLE_AUTOUPDATE">>, "true" >>,
       << <<"OPENCODE_DISABLE_LSP_DOWNLOAD">>, "true" >>,
       << <<"OPENCODE_DISABLE_MODELS_FETCH">>, "true" >> >>

\* createWrapperScript
WrapperStep(f, r) ==
    [fs |-> Chmod(WriteFile(f, WrapperPath, r, WrapperScript), WrapperPath), ok |-> TRUE]

\* createReadme
ReadmeStep(f, r) == [fs |-> WriteFile(f, ReadmePath, r, <<>>), ok |-> TRUE]

\* mutant of TarballStep: the exit code of tar is not checked
TarballStepUnchecked(f, exitCode, leftover, r) ==
    LET f1 == Unlink(f, TarballPath)
    IN  [fs |-> IF exitCode # 0 /\ ~leftover THEN f1
                ELSE WriteFile(f1, TarballPath, r, <<>>),
         ok |-> TRUE]

\* createTarball: the old archive is unlinked (errors ignored), tar runs in
\* dist/; a failing tar may or may not leave a file behind
TarballStep(f, exitCode, leftover, r) ==
    LET f1 == Unlink(f, TarballPath)
    IN  IF exitCode # 0
        THEN [fs |-> IF leftover THEN WriteFile(f1, TarballPath, r, <<>>) ELSE f1,
              ok |-> FALSE]
        ELSE [fs |-> WriteFile(f1, TarballPath, r, <<>>), ok |-> TRUE]

---------------------------------------------------------------------------
(* The packaging process: main() of package-offline-bundle.ts *)

\* mutant of PkgThrow: the catch handler logs the error and does not set the code
PkgThrowExitZero == pkgPc' = "exit" /\ pkgExit' = 0

\* process.exit(1), from main or from main().catch
PkgThrow == pkgPc' = "exit" /\ pkgExit' = 1

PkgGoto(pc) == pkgPc' = pc /\ pkgExit' = pkgExit

\* mutant of DepsExist: the check is missing
DepsExistUnchecked(f) == TRUE

\* main: depsExist = await fs.stat(DEPS_DIR).catch(() => null)
DepsExist(f) == Exists(f, DEPS_DIR)

\* main: the script starts and checks that the dependency root exists
PkgMain ==
    /\ NoProcessRunning
    /\ run < MaxRuns
    /\ run' = run + 1
    /\ pkgRun' = run + 1
    /\ buildDir' = ""
    /\ env' = NoEnv
    /\ IF DepsExist(fs)
       THEN pkgPc' = "build" /\ pkgExit' = -1 /\ pkgDone' = <<"precondition">>
       ELSE PkgThrow /\ pkgDone' = <<>>
    /\ UNCHANGED <<fs, acqVars>>

\* buildOpencode: bun install, the build script, the search of its output
BuildOpencode ==
    /\ pkgPc = "build"
    /\ \/ PkgThrow /\ UNCHANGED <<buildDir, pkgDone>>
       \/ \E entries \in DistListings :
             LET found == SelectBuildOutput(entries)
             IN  IF found = 0
                 THEN PkgThrow /\ UNCHANGED <<buildDir, pkgDone>>
                 ELSE /\ PkgGoto("bundle_clean")
                      /\ buildDir' = entries[found]
                      /\ pkgDone' = Append(pkgDone, "build")
    /\ UNCHANGED <<fs, run, pkgRun, env, acqVars>>

BundleClean ==
    /\ pkgPc = "bundle_clean"
    /\ fs' = BundleCleanStep(fs, pkgRun).fs
    /\ PkgGoto("bundle_binary")
    /\ UNCHANGED <<run, pkgRun, pkgDone, buildDir, env, acqVars>>

BundleBinary ==
    /\ pkgPc = "bundle_binary"
    /\ \E sourceExists \in BOOLEAN :
          LET s == BundleBinaryStep(fs, sourceExists, pkgRun)
          IN  fs' = s.fs /\ IF s.ok THEN PkgGoto("bundle_deps") ELSE PkgThrow
    /\ UNCHANGED <<run, pkgRun, pkgDone, buildDir, env, acqVars>>

BundleDeps ==
    /\ pkgPc = "bundle_deps"
    /\ \E exitCode \in ExitCodes :
          LET s == BundleDepsStep(fs, exitCode, pkgRun)
          IN  fs' = s.fs /\ IF s.ok THEN PkgGoto("bundle_opentui") ELSE PkgThrow
    /\ UNCHANGED <<run, pkgRun, pkgDone, buildDir, env, acqVars>>

BundleOpentui ==
    /\ pkgPc = "bundle_opentui"
    /\ \E sourceExists \in BOOLEAN :
          LET s == BundleOpentuiStep(fs, sourceExists, pkgRun)
          IN  fs' = s.fs /\ IF s.ok THEN PkgGoto("bundle_manifest") ELSE PkgThrow
    /\ UNCHANGED <<run, pkgRun, pkgDone, buildDir, env, acqVars>>

BundleManifest ==
    /\ pkgPc = "bundle_manifest"
    /\ \E bv \in EnvValues, sha \in EnvValues :
          LET e == [BUNDLE_VERSION |-> bv, BUNDLE_COMMIT_SHA |-> sha]
              s == BundleManifestStep(fs, e, pkgRun)
          IN  /\ fs' = s.fs
              /\ IF s.ok
                 THEN /\ PkgGoto("wrapper")
                      /\ env' = e
                      /\ pkgDone' = Append(pkgDone, "bundle")
                 ELSE PkgThrow /\ UNCHANGED <<env, pkgDone>>
    /\ UNCHANGED <<run, pkgRun, buildDir, acqVars>>

CreateWrapperScript ==
    /\ pkgPc = "wrapper"
    /\ fs' = WrapperStep(fs, pkgRun).fs
    /\ PkgGoto("readme")
    /\ pkgDone' = Append(pkgDone, "wrapper")
    /\ UNCHANGED <<run, pkgRun, buildDir, env, acqVars>>

CreateReadme ==
    /\ pkgPc = "readme"
    /\ fs' = ReadmeStep(fs, pkgRun).fs
    /\ PkgGoto("tarball")
    /\ pkgDone' = Append(pkgDone, "readme")
    /\ UNCHANGED <<run, pkgRun, buildDir, env, acqVars>>

\* createTarball, then main returns and the process exits with code 0
CreateTarball ==
    /\ pkgPc = "tarball"
    /\ \E exitCode \in ExitCodes, leftover \in BOOLEAN :
          LET s == TarballStep(fs, exitCode, leftover, pkgRun)
          IN  /\ fs' = s.fs
              /\ IF s.ok
                 THEN /\ pkgPc' = "exit"
                      /\ pkgExit' = 0
                      /\ pkgDone' = Append(pkgDone, "tarball")
                 ELSE PkgThrow /\ UNCHANGED pkgDone
    /\ UNCHANGED <<run, pkgRun, buildDir, env, acqVars>>

PkgNext ==
    \/ PkgMain
    \/ BuildOpencode
    \/ BundleClean
    \/ BundleBinary
    \/ BundleDeps
    \/ BundleOpentui
    \/ BundleManifest
    \/ CreateWrapperScript
    \/ CreateReadme
    \/ CreateTarball

---------------------------------------------------------------------------
(* The offline path resolver of the host application.  A flag value that   *)
(* may be undefined is <<>> when undefined and <<value>> otherwise; the     *)
(* empty string is the empty path.                                          *)

\* Flag.OPENCODE_OFFLINE_MODE, as read from the variable the launcher exports
FlagTruthy(value) == value \in {"true", "1"}

\* the launcher's "$SCRIPT_DIR/deps", SCRIPT_DIR being the launcher's directory
ExpandScriptDir(value, scriptDir) ==
    CASE value = "$SCRIPT_DIR/deps" -> Join(scriptDir, <<"deps">>)
      [] value = "" -> <<>>

\* the flags of a host process started by the launcher `script`
LauncherFlags(script, scriptDir) ==
    [mode |-> FlagTruthy(ValueOf(script, <<"OPENCODE_OFFLINE_MODE">>)),
     deps |-> <<ExpandScriptDir(ValueOf(script, <<"OPENCODE_OFFLINE_DEPS_PATH">>),
                                scriptDir)>>]

IsEnabled(flags) == flags.mode

GetDepsPath(flags) == flags.deps

\* !depsPath: undefined or the empty string
Falsy(depsPath) == depsPath = <<>> \/ depsPath[1] = <<>>

ResolveBinary(flags, name, subpath) ==
    LET depsPath == GetDepsPath(flags)
    IN  IF ~IsEnabled(flags) \/ Falsy(depsPath) THEN <<>>
        ELSE <<Join(depsPath[1], Join(PackagePath(subpath), PackagePath(name)))>>

ResolveNpmPackage(flags, pkg) ==
    LET depsPath == GetDepsPath(flags)
    IN  IF ~IsEnabled(flags) \/ Falsy(depsPath) THEN <<>>
        ELSE <<Join(depsPath[1], Join(<<"node_modules">>, PackagePath(pkg)))>>

\* mutant of ResolveLspBinary: the binary is looked for next to bin/
ResolveLspBinaryFlat(flags, lspName, binaryName) ==
    LET depsPath == GetDepsPath(flags)
    IN  IF ~IsEnabled(flags) \/ Falsy(depsPath) THEN <<>>
        ELSE <<Join(depsPath[1], <<"lsp", lspName, binaryName>>)>>

ResolveLspBinary(flags, lspName, binaryName) ==
    LET depsPath == GetDepsPath(flags)
    IN  IF ~IsEnabled(flags) \/ Falsy(depsPath) THEN <<>>
        ELSE <<Join(depsPath[1], <<"lsp", lspName, "bin", binaryName>>)>>

---------------------------------------------------------------------------
(* session/request-capture.ts: the last request per session, in a Map      *)

Sessions == {"s1", "s2"}
Bodies == {"", "b1"}

\* the requests the host may capture
CapturedRequests ==
    [sessionID : Sessions, url : {"https://api"}, method : {"POST"}, body : Bodies]

\* new Map()
EmptyMap == [k \in {} |-> 0]

\* Map.prototype.set
MapSet(m, k, v) == [x \in DOMAIN m \cup {k} |-> IF x = k THEN v ELSE m[x]]

\* Map.prototype.get: <<>> is undefined
MapGet(m, k) == IF k \in DOMAIN m THEN <<m[k]>> ELSE <<>>

\* mutant of MapDelete: the whole map is emptied
MapDeleteAll(m, k) == EmptyMap

\* Map.prototype.delete
MapDelete(m, k) == [x \in DOMAIN m \ {k} |-> m[x]]

NoGet == [session |-> "", result |-> <<>>]

\* capture(request)
Capture ==
    /\ Len(log) < MaxCalls
    /\ \E request \in CapturedRequests :
          /\ requests' = MapSet(requests, request.sessionID, request)
          /\ log' = Append(log, [op |-> "capture", session |-> request.sessionID,
                                 request |-> <<request>>])
    /\ UNCHANGED got

\* get(sessionID)
Get ==
    /\ \E sessionID \in Sessions :
          got' = [session |-> sessionID, result |-> MapGet(requests, sessionID)]
    /\ UNCHANGED <<requests, log>>

\* clear(sessionID)
Clear ==
    /\ Len(log) < MaxCalls
    /\ \E sessionID \in Sessions :
          /\ requests' = MapDelete(requests, sessionID)
          /\ log' = Append(log, [op |-> "clear", session |-> sessionID, request |-> <<>>])
    /\ UNCHANGED got

CaptureNext ==
    \/ Capture
    \/ Get
    \/ Clear

---------------------------------------------------------------------------
\* what an earlier packaging run left on a disk whose dependency root has
\* since been removed by hand
OldBundle ==
    LET f1 == MkdirP(EmptyFs, BundleBinDir, 0)
        f2 == Chmod(WriteFile(f1, BundleBinaryPath, 0, <<>>), BundleBinaryPath)
    IN  WriteFile(f2, TarballPath, 0, <<>>)

\* the disk before the first run: a clean checkout, or one holding an old bundle
InitialDisks == {EmptyFs, OldBundle}

Init ==
    /\ fs \in InitialDisks
    /\ run = 0
    /\ acqPc = "idle"
    /\ acqExit = -1
    /\ acqRun = 0
    /\ acqDone = <<>>
    /\ fresh = EmptyFs
    /\ release = NoRelease
    /\ asset = 0
    /\ picked = NoPick
    /\ versions = NoVersions
    /\ pkgPc = "idle"
    /\ pkgExit = -1
    /\ pkgRun = 0
    /\ pkgDone = <<>>
    /\ buildDir = ""
    /\ env = NoEnv
    /\ requests = EmptyMap
    /\ got = NoGet
    /\ log = <<>>

\* the two scripts; the request capture of the host application is not running
Next ==
    \/ AcqNext /\ UNCHANGED capVars
    \/ PkgNext /\ UNCHANGED capVars

Spec == Init /\ [][Next]_vars

\* the request capture of one host process; the scripts are not running
SpecCapture == Init /\ [][CaptureNext /\ UNCHANGED pipelineVars]_vars

---------------------------------------------------------------------------
(* Properties *)

InSeq(seq, x) == \E i \in 1..Len(seq) : seq[i] = x

AcqAllStages == <<"clean", "ripgrep", "clangd", "rustAnalyzer", "npm", "manifest">>
PkgAllStages == <<"precondition", "build", "bundle", "wrapper", "readme", "tarball">>

IsStrictPrefix(a, b) == Len(a) < Len(b) /\ SubSeq(b, 1, Len(a)) = a

\* the entries strictly below directory p
Below(f, p) == {q \in DOMAIN f : Under(p, q)}

\* C1: in every state, manifest.json exists under the dependency root only
\* if it was written by the current (or last) acquisition run, after that
\* run completed ripgrep, clangd, rust-analyzer and the npm installation,
\* and the acquisition process has done nothing since: it has exited with 0.
C1_ManifestOnlyAfterAllStages ==
    Exists(fs, ManifestPath) =>
        /\ fs[ManifestPath].run = acqRun
        /\ \A st \in {"ripgrep", "clangd", "rustAnalyzer", "npm"} : InSeq(acqDone, st)
        /\ acqPc = "exit"
        /\ acqExit = 0

\* a second or later acquisition run has written its manifest
C1_Witness == Exists(fs, ManifestPath) /\ acqExit = 0 /\ acqRun > 1

\* C2: whenever manifest.json exists under the dependency root, every key of
\* its components has its artifact under the dependency root: ripgrep/rg,
\* lsp/clangd/bin/clangd, lsp/rust-analyzer/bin/rust-analyzer, and
\* node_modules/<name> for every name of npmPackages.
C2_ComponentsMaterialized ==
    Exists(fs, ManifestPath) =>
        LET text == fs[ManifestPath].data
        IN  \A i \in 1..Len(text) :
               LET key == text[i][1]
               IN  /\ key = <<"components", "ripgrep">> => Exists(fs, RipgrepBinary)
                   /\ key = <<"components", "clangd">> => Exists(fs, ClangdBinary)
                   /\ key = <<"components", "rustAnalyzer">> =>
                         Exists(fs, RustAnalyzerBinary)
                   /\ (Len(key) = 3 /\ SubSeq(key, 1, 2) = <<"components", "npmPackages">>) =>
                         Exists(fs, Join(NodeModulesDir, PackagePath(key[3])))

\* a manifest naming the three tools and a scoped npm package
C2_Witness ==
    /\ Exists(fs, ManifestPath)
    /\ HasKey(fs[ManifestPath].data, <<"components", "ripgrep">>)
    /\ HasKey(fs[ManifestPath].data, <<"components", "clangd">>)
    /\ HasKey(fs[ManifestPath].data, <<"components", "rustAnalyzer">>)
    /\ HasKey(fs[ManifestPath].data,
              <<"components", "npmPackages", "@aws-sdk/credential-providers">>)

\* C3: each pipeline exits with code 0 exactly when it completed every one
\* of its stages, and with code 1 otherwise; while it runs it has no exit code
\* and has completed a strict prefix of its stages, each once and in order, so
\* no stage is retried and none follows a failure.
C3_ExitCodes ==
    /\ acqPc = "exit" => acqExit = (IF acqDone = AcqAllStages THEN 0 ELSE 1)
    /\ acqPc = "exit" => (acqDone = AcqAllStages \/ IsStrictPrefix(acqDone, AcqAllStages))
    /\ acqPc \notin {"idle", "exit"} =>
          acqExit = -1 /\ IsStrictPrefix(acqDone, AcqAllStages)
    /\ pkgPc = "exit" => pkgExit = (IF pkgDone = PkgAllStages THEN 0 ELSE 1)
    /\ pkgPc = "exit" => (pkgDone = PkgAllStages \/ IsStrictPrefix(pkgDone, PkgAllStages))
    /\ pkgPc \notin {"idle", "exit"} =>
          pkgExit = -1 /\ IsStrictPrefix(pkgDone, PkgAllStages)

\* both pipelines have exited, one with code 1 after a failed stage and the
\* other with code 0
C3_Witness ==
    /\ acqPc = "exit" /\ acqExit = 0
    /\ pkgPc = "exit" /\ pkgExit = 1 /\ InSeq(pkgDone, "build")

\* C4: when packaging starts and the dependency root does not exist, the
\* process exits with code 1 at once: the host build is not started and no
\* file, in particular the bundle directory and the archive, is changed.
C4_MissingDepsFailsFast ==
    [][(pkgRun' # pkgRun /\ ~Exists(fs, DEPS_DIR)) =>
          /\ pkgPc' = "exit"
          /\ pkgExit' = 1
          /\ pkgDone' = <<>>
          /\ fs' = fs]_vars

\* packaging has failed its precondition check on a disk holding an old
\* bundle and an old archive
C4_Witness ==
    /\ pkgPc = "exit" /\ pkgExit = 1 /\ pkgDone = <<>>
    /\ ~Exists(fs, DEPS_DIR)
    /\ Exists(fs, BundleBinaryPath)
    /\ Exists(fs, TarballPath)

\* every entry of the bundle directory was created by the packaging run
BundleIsOfThisRun ==
    \A q \in DOMAIN fs : IsPrefix(BUNDLE_DIR, q) => fs[q].run = pkgRun

\* C5, as claimed: after any packaging run, whether it succeeded or failed
\* at any stage, the bundle directory holds no file left by an earlier run.
C5_Original == pkgPc = "exit" => BundleIsOfThisRun

\* C5, amended: the bundle directory is removed and recreated at the start
\* of bundle assembly, after the precondition check and the host build; from
\* then on, and after any packaging run that completed the host build, the
\* bundle directory holds no file left by an earlier run.
C5_CleanBundleAfterBuild ==
    (\/ pkgPc \in {"bundle_binary", "bundle_deps", "bundle_opentui", "bundle_manifest",
                   "wrapper", "readme", "tarball"}
     \/ pkgPc = "exit" /\ InSeq(pkgDone, "build"))
    => BundleIsOfThisRun

\* on a disk that held an old bundle and archive, a packaging run got past
\* the build and failed later: the bundle directory exists, the old archive
\* is still there
C5_Witness ==
    /\ pkgPc = "exit" /\ pkgExit = 1 /\ InSeq(pkgDone, "build")
    /\ Exists(fs, BundleBinaryPath)
    /\ Exists(fs, TarballPath) /\ fs[TarballPath].run = 0

\* C6: once an acquisition run has started, the dependency root is exactly
\* what that run would have produced on an empty disk, and every entry of it
\* was created by that run: nothing of an earlier run, manifest included,
\* survives the wipe.
C6_DepsRootFresh ==
    acqPc # "idle" =>
        /\ Tree(fs, DEPS_DIR) = Tree(fresh, DEPS_DIR)
        /\ \A q \in DOMAIN fs : IsPrefix(DEPS_DIR, q) => fs[q].run = acqRun

\* a successful acquisition run after a failed one: the bundle still holds
\* the copy of the ripgrep archive the failed run left behind
C6_Witness ==
    /\ acqPc = "exit" /\ acqExit = 0
    /\ Exists(fs, ManifestPath)
    /\ Exists(fs, Join(BundleDepsDir, <<RipgrepArchive>>))

\* C7: when a packaging run has exited with code 0 (and no later process has
\* started), the bundle holds bin/opencode, a copy under deps/ of every entry
\* of the dependency root, deps/opentui/libopentui.so, manifest.json, the
\* launcher and the readme, and the archive of this run exists.
C7_NoPartialSuccess ==
    (pkgPc = "exit" /\ pkgExit = 0 /\ pkgRun = run) =>
        /\ Exists(fs, BundleBinaryPath)
        /\ \A q \in Below(fs, DEPS_DIR) :
              LET t == Join(BundleDepsDir, SubSeq(q, Len(DEPS_DIR) + 1, Len(q)))
              IN  /\ Exists(fs, t)
                  /\ fs[t].kind = fs[q].kind
                  /\ fs[t].exec = fs[q].exec
                  /\ fs[t].data = fs[q].data
        /\ Exists(fs, BundleOpentuiLib)
        /\ Exists(fs, BundleManifestPath)
        /\ Exists(fs, WrapperPath)
        /\ Exists(fs, ReadmePath)
        /\ Exists(fs, TarballPath)
        /\ fs[TarballPath].run = pkgRun

\* a packaging run has just exited with code 0 over a complete dependency root
C7_Witness ==
    /\ pkgPc = "exit" /\ pkgExit = 0 /\ pkgRun = run
    /\ Exists(fs, ManifestPath)
    /\ Exists(fs, Join(BundleDepsDir, <<"ripgrep", "rg">>))

\* C8: the manifest at the bundle root, written after the manifest of the
\* dependency root, has every member of that manifest with the same value,
\* and has no other member than bundleVersion and commitSha.
C8_ManifestRoundTrip ==
    (/\ Exists(fs, ManifestPath)
     /\ Exists(fs, BundleManifestPath)
     /\ fs[BundleManifestPath].run > fs[ManifestPath].run) =>
        LET d == fs[ManifestPath].data
            b == fs[BundleManifestPath].data
        IN  /\ \A i \in 1..Len(d) : HasKey(b, d[i][1]) /\ ValueOf(b, d[i][1]) = d[i][2]
            /\ \A j \in 1..Len(b) :
                  \/ HasKey(d, b[j][1])
                  \/ b[j][1] \in {<<"bundleVersion">>, <<"commitSha">>}
            /\ \A i, j \in 1..Len(b) : b[i][1] = b[j][1] => i = j
            /\ \A k \in {<<"version">>, <<"created">>, <<"platform">>, <<"arch">>} :
                  HasKey(d, k)

\* a bundle manifest with both injected fields
C8_Witness ==
    /\ Exists(fs, ManifestPath)
    /\ Exists(fs, BundleManifestPath)
    /\ fs[BundleManifestPath].run > fs[ManifestPath].run
    /\ HasKey(fs[BundleManifestPath].data, <<"bundleVersion">>)
    /\ HasKey(fs[BundleManifestPath].data, <<"commitSha">>)

\* the bundle manifest was written by the current (or last) packaging run
BundleManifestOfThisRun ==
    /\ Exists(fs, BundleManifestPath)
    /\ fs[BundleManifestPath].run = pkgRun
    /\ InSeq(pkgDone, "bundle")

Injected(text, key, value) ==
    /\ HasKey(text, key) <=> Truthy(value)
    /\ Truthy(value) => ValueOf(text, key) = value[1]

\* C9, as claimed: the bundle manifest contains bundleVersion if and only
\* if the environment supplies BUNDLE_VERSION, and commitSha if and only if it
\* supplies BUNDLE_COMMIT_SHA, each with the supplied value.
C9_Original ==
    BundleManifestOfThisRun =>
        LET b == fs[BundleManifestPath].data
        IN  /\ HasKey(b, <<"bundleVersion">>) <=> env.BUNDLE_VERSION # <<>>
            /\ HasKey(b, <<"commitSha">>) <=> env.BUNDLE_COMMIT_SHA # <<>>

\* C9, amended: the bundle manifest contains bundleVersion if and only if
\* the environment supplies a non-empty BUNDLE_VERSION, and commitSha if and
\* only if it supplies a non-empty BUNDLE_COMMIT_SHA, each independently of the
\* other and with the supplied value; the manifest of the dependency root
\* never contains either field.
C9_InjectedWhenNonEmpty ==
    /\ BundleManifestOfThisRun =>
          /\ Injected(fs[BundleManifestPath].data, <<"bundleVersion">>, env.BUNDLE_VERSION)
          /\ Injected(fs[BundleManifestPath].data, <<"commitSha">>, env.BUNDLE_COMMIT_SHA)
    /\ Exists(fs, ManifestPath) =>
          /\ ~HasKey(fs[ManifestPath].data, <<"bundleVersion">>)
          /\ ~HasKey(fs[ManifestPath].data, <<"commitSha">>)

\* BUNDLE_VERSION is set but empty, BUNDLE_COMMIT_SHA is set: only commitSha
\* is in the bundle manifest
C9_Witness ==
    /\ BundleManifestOfThisRun
    /\ env.BUNDLE_VERSION = <<"">>
    /\ env.BUNDLE_COMMIT_SHA = <<"v1">>
    /\ HasKey(fs[BundleManifestPath].data, <<"commitSha">>)

\* the indexes of the assets whose name contains the platform marker and the
\* version tag and ends with the extension
ClangdMatches(rel) ==
    { i \in 1..Len(rel.assets) :
        /\ Includes(rel.assets[i], "linux")
        /\ Includes(rel.assets[i], rel.tag)
        /\ EndsWith(rel.assets[i], ".zip") }

\* the indexes of the assets with exactly the fixed file name
RustAnalyzerMatches(rel) ==
    { i \in 1..Len(rel.assets) :
        rel.assets[i] = "rust-analyzer-x86_64-unknown-linux-gnu.gz" }

Least(S) == CHOOSE x \in S : \A y \in S : x <= y

\* the selection step: the first match is selected and its download is next,
\* or there is no match and the process exits with 1 without touching a file
SelectsFirstOrStops(select, fetch, matches) ==
    acqPc = select =>
        IF matches # {}
        THEN /\ acqPc' = fetch
             /\ asset' = Least(matches)
             /\ picked' = [tag |-> release.tag, name |-> release.assets[Least(matches)]]
        ELSE /\ acqPc' = "exit"
             /\ acqExit' = 1
             /\ fs' = fs

\* C10: for the clangd predicate and for the rust-analyzer predicate, the
\* selected asset is the first asset in listed order that satisfies the
\* predicate, and the selection stops the pipeline, with no download, exactly
\* when no asset satisfies it.
C10_FirstMatchingAsset ==
    [][/\ SelectsFirstOrStops("clangd_select", "clangd_fetch", ClangdMatches(release))
       /\ SelectsFirstOrStops("rustAnalyzer_select", "rustAnalyzer_fetch",
                              RustAnalyzerMatches(release))]_vars

\* two assets of the clangd release satisfy the predicate and one was selected
C10_Witness ==
    /\ acqPc = "clangd_fetch"
    /\ Cardinality(ClangdMatches(release)) = 2
    /\ asset = Least(ClangdMatches(release))

\* the copy of the dependency root's manifest that cp -r left in the bundle:
\* the manifest of the acquisition run that preceded that packaging run
CopiedManifestPath == Join(BundleDepsDir, <<"manifest.json">>)

\* the members of a manifest text that record what the resolver and the
\* install step returned
Resolved(text) ==
    { text[i] : i \in { j \in 1..Len(text) :
                          /\ text[j][1][1] = "components"
                          /\ text[j][1] # <<"components", "ripgrep">> } }

\* two manifest texts have the same members in the same order, but for the
\* value of created
SameButCreated(a, b) ==
    /\ Len(a) = Len(b)
    /\ \A i \in 1..Len(a) :
          /\ a[i][1] = b[i][1]
          /\ a[i][1] # <<"created">> => a[i][2] = b[i][2]

\* C11: the manifests of two successful acquisition runs (the earlier one
\* as copied into the bundle, the later one in the dependency root) both
\* record the pinned constant for ripgrep, whatever the release lookups
\* returned; when the lookups and the install step returned the same in both
\* runs, the two manifests differ in nothing but created.
C11_PinnedComponentStable ==
    (Exists(fs, ManifestPath) /\ Exists(fs, CopiedManifestPath)) =>
        LET a == fs[CopiedManifestPath].data
            b == fs[ManifestPath].data
        IN  /\ ValueOf(a, <<"components", "ripgrep">>) = RIPGREP_VERSION
            /\ ValueOf(b, <<"components", "ripgrep">>) = RIPGREP_VERSION
            /\ Resolved(a) = Resolved(b) => SameButCreated(a, b)

\* a second successful acquisition run, after the manifest of the first was
\* copied into the bundle, with the same answers: only created differs
C11_Witness ==
    /\ Exists(fs, ManifestPath) /\ Exists(fs, CopiedManifestPath)
    /\ fs[ManifestPath].run > fs[CopiedManifestPath].run
    /\ Resolved(fs[CopiedManifestPath].data) = Resolved(fs[ManifestPath].data)
    /\ ValueOf(fs[CopiedManifestPath].data, <<"created">>)
          # ValueOf(fs[ManifestPath].data, <<"created">>)

\* the bundle directory createBundle, createWrapperScript and createReadme
\* build, every step succeeding, on a disk that holds the dependency root
\* `deps` and nothing else
AssembleFrom(deps, e, r) ==
    LET f1 == BundleCleanStep(deps, r).fs
        f2 == BundleBinaryStep(f1, TRUE, r).fs
        f3 == BundleDepsStep(f2, 0, r).fs
        f4 == BundleOpentuiStep(f3, TRUE, r).fs
        f5 == BundleManifestStep(f4, e, r).fs
        f6 == WrapperStep(f5, r).fs
        f7 == ReadmeStep(f6, r).fs
    IN  Tree(f7, BUNDLE_DIR)

\* a tree without the record of which run created each entry
Unstamped(tree) ==
    [q \in DOMAIN tree |->
        [kind |-> tree[q].kind, exec |-> tree[q].exec, data |-> tree[q].data]]

\* C12: the bundle directory a successful packaging run leaves is the one
\* assembled from the dependency root and the environment alone, whatever the
\* bundle directory held before the run; assembled in another run from the
\* same dependency root and environment, the tree is the same.
C12_AssemblerIdempotent ==
    (pkgPc = "exit" /\ pkgExit = 0 /\ pkgRun = run) =>
        /\ Tree(fs, BUNDLE_DIR) = AssembleFrom(Tree(fs, DEPS_DIR), env, pkgRun)
        /\ \A r \in 1..MaxRuns :
              Unstamped(AssembleFrom(Tree(fs, DEPS_DIR), env, r))
                 = Unstamped(Tree(fs, BUNDLE_DIR))

\* a successful packaging run on the disk that held an old bundle
C12_Witness ==
    /\ pkgPc = "exit" /\ pkgExit = 0 /\ pkgRun = run
    /\ fs[<<"dist">>].run = 0
    /\ Truthy(env.BUNDLE_VERSION)

\* the stage a position of the acquisition script belongs to, as its index
\* in the order of main
AcqStageAt(pc) ==
    CASE pc \in {"ripgrep", "ripgrep_extract"} -> 2
      [] pc \in {"clangd", "clangd_select", "clangd_fetch", "clangd_extract"} -> 3
      [] pc \in {"rustAnalyzer", "rustAnalyzer_select", "rustAnalyzer_fetch",
                 "rustAnalyzer_extract"} -> 4
      [] pc = "npm" -> 5
      [] pc = "manifest" -> 6

\* the same for the packaging script
PkgStageAt(pc) ==
    CASE pc = "build" -> 2
      [] pc \in {"bundle_clean", "bundle_binary", "bundle_deps", "bundle_opentui",
                 "bundle_manifest"} -> 3
      [] pc = "wrapper" -> 4
      [] pc = "readme" -> 5
      [] pc = "tarball" -> 6

\* C13: while a script is inside a stage, the stages completed so far in
\* its run are exactly the stages before that one, in the fixed order (wipe,
\* ripgrep, clangd, rust-analyzer, npm packages, manifest; precondition check,
\* host build, bundle assembly, launcher, readme, archive): a stage begins
\* only after all earlier stages completed, and one stage is in progress at a
\* time.
C13_StrictlySequential ==
    /\ acqPc \notin {"idle", "exit"} =>
          acqDone = SubSeq(AcqAllStages, 1, AcqStageAt(acqPc) - 1)
    /\ pkgPc \notin {"idle", "exit"} =>
          pkgDone = SubSeq(PkgAllStages, 1, PkgStageAt(pkgPc) - 1)
    /\ acqPc \in {"idle", "exit"} \/ pkgPc \in {"idle", "exit"}

\* rust-analyzer is being extracted after a packaging run has ended
C13_Witness ==
    /\ acqPc = "rustAnalyzer_extract"
    /\ acqDone = <<"clean", "ripgrep", "clangd">>
    /\ pkgPc = "exit" /\ pkgDone = PkgAllStages

\* C14: what the scripts derive from a subprocess exists only when that
\* subprocess exited with code 0.  The executable rg (chmod after tar), the
\* executable lsp/clangd/bin/clangd (chmod after unzip, with the zip
\* unlinked), the rust-analyzer binary
\* (written from the output of gunzip) and the versions read back after bun
\* add are there only when their stage completed; the build directory is
\* known only after bun install and the build succeeded; deps/opentui, made
\* right after cp -r, is there only with the copy of the whole dependency
\* root; and exit code 0 of packaging comes with the archive tar wrote.
C14_ExitCodesChecked ==
    /\ (Exists(fs, RipgrepBinary) /\ fs[RipgrepBinary].exec) => InSeq(acqDone, "ripgrep")
    /\ (Exists(fs, ClangdBinary) /\ fs[ClangdBinary].exec) => InSeq(acqDone, "clangd")
    /\ Exists(fs, ClangdFinalDir) /\ InSeq(acqDone, "clangd") =>
          \A n \in ClangdAssetNames : ~Exists(fs, Join(DEPS_DIR, <<n>>))
    /\ Exists(fs, RustAnalyzerBinary) => InSeq(acqDone, "rustAnalyzer")
    /\ versions.npm # <<>> => InSeq(acqDone, "npm")
    /\ buildDir # "" => InSeq(pkgDone, "build")
    /\ (/\ Exists(fs, BundleOpentuiDir)
        /\ fs[BundleOpentuiDir].run = pkgRun
        /\ pkgRun = run)
       => \A q \in Below(fs, DEPS_DIR) :
             Exists(fs, Join(BundleDepsDir, SubSeq(q, Len(DEPS_DIR) + 1, Len(q))))
    /\ (pkgPc = "exit" /\ pkgExit = 0)
       => (pkgRun = run => Exists(fs, TarballPath) /\ fs[TarballPath].run = pkgRun)

\* gunzip exited non-zero: the archive was downloaded, the run has exited
\* with 1 and there is no rust-analyzer binary
C14_Witness ==
    /\ acqPc = "exit" /\ acqExit = 1
    /\ acqDone = <<"clean", "ripgrep", "clangd">>
    /\ Exists(fs, RustAnalyzerArchivePath)
    /\ ~Exists(fs, RustAnalyzerBinary)

\* the paths of an archive tree below its top-level directory `top`, with
\* their kinds; the top-level directory itself is <<>>
Inside(tree, top) ==
    { <<SubSeq(t[1], 2, Len(t[1])), t[2]>> : t \in {x \in tree : x[1][1] = top} }

\* the paths below directory p, relative to p, with their kinds
Holds(f, p) ==
    { <<SubSeq(q, Len(p) + 1, Len(q)), f[q].kind>> : q \in {x \in DOMAIN f : IsPrefix(p, x)} }

\* C15: when downloadClangd returns, for the tag of the release and the
\* asset name the predicate accepted, lsp/clangd holds the tree some archive
\* had below clangd_<tag>, made in this run, lsp/clangd_<tag> and the zip are
\* gone, and the version returned is the tag.
C15_ClangdProtocol ==
    [][(acqPc = "clangd_extract" /\ acqPc' = "rustAnalyzer") =>
          /\ ClangdPredicate(picked.name, picked.tag)
          /\ versions'.clangd = picked.tag
          /\ ~Exists(fs', Join(LspDir, <<ClangdExtractedName(picked.tag)>>))
          /\ ~Exists(fs', Join(DEPS_DIR, <<picked.name>>))
          /\ \E tree \in ClangdTrees :
                Holds(fs', ClangdFinalDir) = Inside(tree, ClangdExtractedName(picked.tag))
          /\ \A q \in DOMAIN fs' : IsPrefix(ClangdFinalDir, q) => fs'[q].run = acqRun
          /\ fs'[ClangdBinary].exec]_vars

\* downloadClangd has returned the tag of the other release
C15_Witness ==
    /\ acqPc = "rustAnalyzer"
    /\ versions.clangd = "19.1.0"
    /\ Exists(fs, ClangdBinary)

\* C16: after a successful acquisition run ripgrep/rg (directly in
\* ripgrep/, its wrapping directory stripped), lsp/clangd/bin/clangd and
\* lsp/rust-analyzer/bin/rust-analyzer exist and are executable; after a
\* successful packaging run bin/opencode and the launcher are executable.
C16_ExecutableBits ==
    /\ (acqPc = "exit" /\ acqExit = 0) =>
          /\ \A b \in {RipgrepBinary, ClangdBinary, RustAnalyzerBinary} :
                Exists(fs, b) /\ fs[b].kind = "file" /\ fs[b].exec
          /\ fs[Join(DEPS_DIR, <<"ripgrep", "rg">>)].exec
          /\ ~Exists(fs, Join(DEPS_DIR, <<"ripgrep", "ripgrep-14.1.1">>))
    /\ (pkgPc = "exit" /\ pkgExit = 0 /\ pkgRun = run) =>
          \A b \in {BundleBinaryPath, WrapperPath} :
             Exists(fs, b) /\ fs[b].kind = "file" /\ fs[b].exec

\* both scripts have succeeded, packaging last
C16_Witness ==
    /\ acqPc = "exit" /\ acqExit = 0
    /\ pkgPc = "exit" /\ pkgExit = 0 /\ pkgRun = run
    /\ fs[RipgrepBinary].exec

\* the npmPackages members of a manifest text, as <<package, version>>
NpmPackagesOf(text) ==
    { <<text[i][1][3], text[i][2]>> :
        i \in { j \in 1..Len(text) : /\ Len(text[j][1]) = 3
                                     /\ text[j][1][2] = "npmPackages" } }

\* the dependencies members of a package.json text, as <<package, version>>
DependenciesOf(text) ==
    { <<text[i][1][2], text[i][2]>> :
        i \in { j \in 1..Len(text) : /\ Len(text[j][1]) = 2
                                     /\ text[j][1][1] = "dependencies" } }

\* C17: package.json has no dependency until the install step succeeded;
\* the npmPackages of the manifest are the dependencies package.json holds
\* after the install, one entry for each package of the list, with the
\* resolved version and never the specifier that was requested.
C17_ResolvedVersionsRecorded ==
    /\ (Exists(fs, PkgJsonPath) /\ ~InSeq(acqDone, "npm")) =>
          DependenciesOf(fs[PkgJsonPath].data) = {}
    /\ Exists(fs, ManifestPath) =>
          LET npm == NpmPackagesOf(fs[ManifestPath].data)
          IN  /\ npm = DependenciesOf(fs[PkgJsonPath].data)
              /\ {e[1] : e \in npm} = {SpecifierName(Packages[i]) : i \in 1..Len(Packages)}
              /\ Cardinality(npm) = Len(Packages)
              /\ \A e \in npm : \A i \in 1..Len(Packages) : e[2] # Packages[i]
              /\ \A e \in npm : Exists(fs, Join(NodeModulesDir, PackagePath(e[1])))

\* the manifest records the pinned version of a pinned package and the
\* resolved version of an unpinned one
C17_Witness ==
    /\ Exists(fs, ManifestPath)
    /\ <<"opencode-anthropic-auth", "0.0.9">> \in NpmPackagesOf(fs[ManifestPath].data)
    /\ \E v \in Resolutions : <<"pyright", v>> \in NpmPackagesOf(fs[ManifestPath].data)

\* flag values a host process may be started with
FlagValues ==
    [mode : BOOLEAN, deps : {<<>>, <<<<>>>>, <<BundleDepsDir>>, <<DEPS_DIR>>}]

\* the resolver answers with a path: offline mode is on and the dependency
\* path is set and not empty
Answers(flags) == flags.mode /\ flags.deps # <<>> /\ flags.deps[1] # <<>>

\* C18: the resolver returns undefined unless offline mode is enabled and
\* a (non-empty) dependency path is set, and otherwise <deps>/<subpath>/<name>,
\* <deps>/node_modules/<pkg> and <deps>/lsp/<lsp>/bin/<binary>; with the flags
\* the launcher of a successfully assembled bundle exports, the paths it
\* returns for rg, clangd, rust-analyzer and every package of the manifest's
\* npmPackages exist in the bundle.
C18_ResolverLayoutAgreement ==
    /\ \A flags \in FlagValues :
          /\ ResolveBinary(flags, "rg", "ripgrep") =
                (IF Answers(flags) THEN <<flags.deps[1] \o <<"ripgrep", "rg">>>> ELSE <<>>)
          /\ ResolveNpmPackage(flags, "@opencode-ai/plugin") =
                (IF Answers(flags)
                 THEN <<flags.deps[1] \o <<"node_modules", "@opencode-ai", "plugin">>>>
                 ELSE <<>>)
          /\ ResolveLspBinary(flags, "clangd", "clangd") =
                (IF Answers(flags)
                 THEN <<flags.deps[1] \o <<"lsp", "clangd", "bin", "clangd">>>>
                 ELSE <<>>)
    /\ (pkgPc = "exit" /\ pkgExit = 0 /\ pkgRun = run) =>
          LET flags == LauncherFlags(fs[WrapperPath].data, BUNDLE_DIR)
              found == { ResolveBinary(flags, "rg", "ripgrep"),
                         ResolveLspBinary(flags, "clangd", "clangd"),
                         ResolveLspBinary(flags, "rust-analyzer", "rust-analyzer") }
                       \cup { ResolveNpmPackage(flags, e[1]) :
                                e \in NpmPackagesOf(fs[BundleManifestPath].data) }
          IN  /\ \A p \in found : p # <<>> /\ Exists(fs, p[1]) /\ IsPrefix(BUNDLE_DIR, p[1])
              /\ Cardinality(found) = 3 + Len(Packages)

\* a bundle was assembled from a complete dependency root
C18_Witness ==
    /\ pkgPc = "exit" /\ pkgExit = 0 /\ pkgRun = run
    /\ Exists(fs, WrapperPath)
    /\ Exists(fs, Join(BundleDepsDir, <<"lsp", "rust-analyzer", "bin", "rust-analyzer">>))
    /\ Exists(fs, Join(BundleDepsDir, <<"node_modules", "@aws-sdk", "credential-providers">>))

\* the calls of `calls` that name session s
CallsOn(calls, s) == SelectSeq(calls, LAMBDA c : c.session = s)

\* what the calls made so far leave for session s: the request of the last
\* call on s when that call is a capture, nothing when it is a clear or when
\* there was no call on s
LastCaptured(calls, s) ==
    LET mine == CallsOn(calls, s)
    IN  IF mine = <<>> THEN <<>> ELSE mine[Len(mine)].request

\* C19: the map holds, for every session, the request most recently
\* captured for it since its last clear, and nothing when there is none; get
\* returns that and changes nothing; a capture or a clear on one session
\* leaves what get returns for every other session as it was.
C19_LastRequestPerSession ==
    /\ [](/\ \A s \in Sessions : MapGet(requests, s) = LastCaptured(log, s)
          /\ \A s \in DOMAIN requests : requests[s].sessionID = s)
    /\ [][/\ got' # got =>
                /\ got'.result = LastCaptured(log, got'.session)
                /\ requests' = requests
          /\ log' # log =>
                \A s \in Sessions \ {log'[Len(log')].session} :
                   MapGet(requests', s) = MapGet(requests, s)]_vars

\* s1 was captured twice with different requests, then s2 was cleared;
\* get(s1) returned the second request
C19_Witness ==
    /\ Len(log) = 3
    /\ log[1].op = "capture" /\ log[1].session = "s1"
    /\ log[2].op = "capture" /\ log[2].session = "s1" /\ log[2].request # log[1].request
    /\ log[3].op = "clear" /\ log[3].session = "s2"
    /\ got = [session |-> "s1", result |-> log[2].request]

\* the archive as a step may find or leave it: <<>> when there is none
Archive(f) == IF Exists(f, TarballPath) THEN <<f[TarballPath]>> ELSE <<>>

\* C20: a step creates, deletes or rewrites the distribution archive only
\* when it is the archival step of a packaging run that has, in that same
\* run, assembled the bundle (manifest rewrite included) and written the
\* launcher and the readme; a packaging run that stopped earlier has left
\* the archive as it found it.
C20_ArchiveOnlyAfterAssembly ==
    /\ [][Archive(fs') # Archive(fs) =>
             /\ pkgPc = "tarball"
             /\ pkgDone = <<"precondition", "build", "bundle", "wrapper", "readme">>
             /\ \A q \in {BundleBinaryPath, BundleOpentuiLib, BundleManifestPath,
                          WrapperPath, ReadmePath} :
                   Exists(fs, q) /\ fs[q].run = pkgRun]_vars
    /\ []((pkgPc = "exit" /\ ~InSeq(pkgDone, "readme")) =>
             (Exists(fs, TarballPath) => fs[TarballPath].run # pkgRun))

\* the dependency root of a failed acquisition holds no manifest: packaging
\* copied it, stopped at the manifest, and the old archive is still there
C20_Witness ==
    /\ pkgPc = "exit" /\ pkgExit = 1
    /\ pkgDone = <<"precondition", "build">>
    /\ Exists(fs, DEPS_DIR) /\ ~Exists(fs, ManifestPath)
    /\ Exists(fs, BundleOpentuiLib)
    /\ Exists(fs, TarballPath) /\ fs[TarballPath].run < pkgRun

\* the file names a download is saved under, directly in the dependency root
ArchiveNames == {RipgrepArchive, "rust-analyzer.gz"} \cup ClangdAssetNames

\* directory `dir` holds none of the downloaded archives named in `names`
NoArchiveIn(dir, names) == \A n \in names : ~Exists(fs, Join(dir, <<n>>))

\* each archive is gone once its stage has completed, and all of them after
\* a successful acquisition run
ArchivesDeletedByStage ==
    /\ InSeq(acqDone, "ripgrep") => NoArchiveIn(DEPS_DIR, {RipgrepArchive})
    /\ InSeq(acqDone, "clangd") => NoArchiveIn(DEPS_DIR, ClangdAssetNames)
    /\ InSeq(acqDone, "rustAnalyzer") => NoArchiveIn(DEPS_DIR, {"rust-analyzer.gz"})
    /\ (acqPc = "exit" /\ acqExit = 0) => NoArchiveIn(DEPS_DIR, ArchiveNames)

\* C21, as claimed: the archives are deleted stage by stage, so the copy
\* of the dependency root under the bundle's deps/ never contains a
\* downloaded archive.
C21_Original ==
    /\ ArchivesDeletedByStage
    /\ NoArchiveIn(BundleDepsDir, ArchiveNames)

\* C21, amended: the archives are deleted stage by stage, so after a
\* successful acquisition run none remains under the dependency root; the
\* copy under deps/ of a bundle whose manifest was written, and so of every
\* bundle of a packaging run that exited with code 0, contains no downloaded
\* archive.
C21_NoArchiveAfterSuccess ==
    /\ ArchivesDeletedByStage
    /\ Exists(fs, BundleManifestPath) => NoArchiveIn(BundleDepsDir, ArchiveNames)
    /\ (pkgPc = "exit" /\ pkgExit = 0) => NoArchiveIn(BundleDepsDir, ArchiveNames)

\* the second run was a successful acquisition, the third a packaging run
\* that copied its dependency root and wrote the bundle manifest
C21_Witness ==
    /\ acqPc = "exit" /\ acqExit = 0 /\ acqRun = 2
    /\ pkgRun = 3 /\ pkgPc \in {"wrapper", "readme", "tarball", "exit"}
    /\ Exists(fs, BundleManifestPath)
    /\ Exists(fs, Join(BundleDepsDir, <<"lsp", "rust-analyzer", "bin", "rust-analyzer">>))

====
